---- MODULE Spec2Model ----
(***************************************************************************)
(* Model of src/app/participant-dashboard/page.jsx: the backend discovery  *)
(* (apiService.findWorkingBackend), the certificate fetch with IPFS        *)
(* metadata enrichment (apiService.getCertificates), the balance fetch     *)
(* with its direct-provider fallback, and the ParticipantDashboard load    *)
(* (fetchWalletData) that joins them.                                      *)
(*                                                                         *)
(* One action is one JavaScript macrotask: the arrival of a network or     *)
(* provider response together with every continuation (microtask) that     *)
(* runs before the next await on a request that is still in flight.  The   *)
(* status line and the body of a response arrive in the same action.       *)
(***************************************************************************)
EXTENDS Integers, Sequences, FiniteSets, TLC

(***************************************************************************)
(* Bounds of the model.                                                    *)
(***************************************************************************)
\* longest certificates array a backend response carries
MaxCerts == 2
\* number of fetchWalletData calls in one session (the mount plus refreshes)
MaxLoads == 2

(***************************************************************************)
(* JavaScript values.  A value is tagged so that values of different       *)
(* JavaScript types are comparable; an object is a function from its       *)
(* property names to values.                                               *)
(***************************************************************************)
Null == <<"null">>
Undefined == <<"undefined">>
Str(s) == <<"str", s>>
Num(n) == <<"num", n>>
Obj(o) == <<"obj", o>>
EmptyObject == [k \in {} |-> Null]

IsObj(v) == v[1] = "obj"

\* o[k] of JavaScript: undefined when the property is absent
Get(o, k) == IF k \in DOMAIN o THEN o[k] ELSE Undefined

\* !v for the values the model uses
Falsy(v) == \/ v = Undefined
            \/ v = Null
            \/ v = Str("")
            \/ v = Num(0)

\* { ...a, ...b }: the properties of b are written after those of a
Spread(a, b) == [k \in (DOMAIN a) \cup (DOMAIN b) |->
                    IF k \in DOMAIN b THEN b[k] ELSE a[k]]

\* the own properties `...v` contributes in an object literal
\* (null contributes none)
OwnProps(v) == IF IsObj(v) THEN v[2] ELSE EmptyObject

(***************************************************************************)
(* Module-level configuration.                                             *)
(***************************************************************************)
POSSIBLE_BACKEND_URLS ==
    << "http://localhost:5000", "http://localhost:3001", "http://127.0.0.1:5000" >>

DefaultApiBaseUrl == "http://localhost:5000/api"
DefaultHealthUrl == "http://localhost:5000/health"

IpfsScheme == "ipfs://"
IpfsGateway == "https://ipfs.io/ipfs/"

StartsWith(s, p) == Len(s) >= Len(p) /\ SubSeq(s, 1, Len(p)) = p

\* resolveIPFS(uri) for a string uri
resolveIPFS(uri) ==
    IF uri = "" THEN ""
    ELSE IF StartsWith(uri, IpfsScheme)
         THEN IpfsGateway \o SubSeq(uri, Len(IpfsScheme) + 1, Len(uri))
         ELSE uri

(***************************************************************************)
(* ethers.formatEther: a decimal digit string of wei to a decimal string   *)
(* of ether, 18 places, zeros trimmed, at least one fractional digit.      *)
(***************************************************************************)
EtherDecimals == 18

RECURSIVE PadLeft(_, _)
PadLeft(s, n) == IF Len(s) > n THEN s ELSE PadLeft("0" \o s, n)

RECURSIVE TrimTrailingZeros(_)
TrimTrailingZeros(s) ==
    IF Len(s) >= 2 /\ SubSeq(s, Len(s), Len(s)) = "0"
                   /\ SubSeq(s, Len(s) - 1, Len(s) - 1) # "."
    THEN TrimTrailingZeros(SubSeq(s, 1, Len(s) - 1))
    ELSE s

formatEther(wei) ==
    LET padded == PadLeft(wei, EtherDecimals)
        index == Len(padded) - EtherDecimals
    IN  TrimTrailingZeros(SubSeq(padded, 1, index) \o "."
                          \o SubSeq(padded, index + 1, Len(padded)))

(***************************************************************************)
(* State.                                                                  *)
(***************************************************************************)
VARIABLES
    API_BASE_URL,       \* module variable, line 13
    HEALTH_URL,         \* module variable, line 14
    hasEthereum,        \* window.ethereum is present
    storedWallet,       \* localStorage.getItem("walletAddress")
    phase,              \* "initial", "mounted" (first effects ran), "ready"
    isClient,
    metaMaskInstalled,
    wallet,
    balance,
    certificates,
    certificateCount,
    loading,
    metadataLoading,
    error,
    backendStatus,
    probes,             \* the /health requests of findWorkingBackend, in order
    findResult,         \* "idle", "running", "returned", "threw"
    loads               \* one record per fetchWalletData call, in call order

moduleVars == << API_BASE_URL, HEALTH_URL >>
envVars == << hasEthereum, storedWallet >>
dashVars == << balance, certificates, certificateCount, loading,
               metadataLoading, error >>
mountVars == << phase, isClient, metaMaskInstalled, wallet >>
probeVars == << probes, findResult, backendStatus >>
vars == << API_BASE_URL, HEALTH_URL, hasEthereum, storedWallet, phase,
           isClient, metaMaskInstalled, wallet, balance, certificates,
           certificateCount, loading, metadataLoading, error, backendStatus,
           probes, findResult, loads >>

WalletAddress == "0xabc"

Init ==
    /\ API_BASE_URL = DefaultApiBaseUrl
    /\ HEALTH_URL = DefaultHealthUrl
    /\ hasEthereum \in BOOLEAN
    /\ storedWallet \in { Null, Str(WalletAddress) }
    /\ phase = "initial"
    /\ isClient = FALSE
    /\ metaMaskInstalled = TRUE
    /\ wallet = Null
    /\ balance = Null
    /\ certificates = << >>
    /\ certificateCount = 0
    /\ loading = TRUE
    /\ metadataLoading = FALSE
    /\ error = Null
    /\ backendStatus = Null
    /\ probes = << >>
    /\ findResult = "idle"
    /\ loads = << >>

(***************************************************************************)
(* apiService.findWorkingBackend, called by checkBackendHealth.            *)
(***************************************************************************)
\* what a GET {baseUrl}/health can do
HealthOutcomes == { "error", "non2xx", "ok", "okBadJson" }

HealthPayload == "OK"
NoBackendMessage == "No backend server found. Please start your backend server."

Probe(url) == [url |-> url, outcome |-> "pending"]

\* response.ok of the probe
ResponseOk(outcome) == outcome \in { "ok", "okBadJson" }

\* the payload returned without the test of response.ok
ProbeReturnsUnchecked(outcome) == outcome \in { "ok", "non2xx" }

\* the probe's `return await response.json()` is reached and returns
ProbeReturns(outcome) == outcome = "ok"

\* checkBackendHealth up to the first await: the first candidate is probed
StartHealthCheck ==
    /\ probes' = << Probe(POSSIBLE_BACKEND_URLS[1]) >>
    /\ findResult' = "running"
    /\ UNCHANGED backendStatus

\* the response of the probe in flight, and the loop up to the next await
HealthResponse(outcome) ==
    LET i == Len(probes)
        baseUrl == POSSIBLE_BACKEND_URLS[i]
        settled == [probes EXCEPT ![i].outcome = outcome]
    IN  /\ findResult = "running"
        /\ probes[i].outcome = "pending"
        /\ IF ResponseOk(outcome)
           THEN /\ API_BASE_URL' = baseUrl \o "/api"
                /\ HEALTH_URL' = baseUrl \o "/health"
           ELSE UNCHANGED moduleVars
        /\ IF ProbeReturns(outcome)
           THEN /\ probes' = settled
                /\ findResult' = "returned"
                /\ backendStatus' = Str(HealthPayload)
           ELSE IF i < Len(POSSIBLE_BACKEND_URLS)
           THEN /\ probes' = Append(settled, Probe(POSSIBLE_BACKEND_URLS[i + 1]))
                /\ UNCHANGED << findResult, backendStatus >>
           ELSE /\ probes' = settled
                /\ findResult' = "threw"
                /\ backendStatus' = Str("ERROR: " \o NoBackendMessage)
        /\ UNCHANGED << envVars, mountVars, dashVars, loads >>

(***************************************************************************)
(* What the backend, the IPFS gateway and the wallet provider can answer.  *)
(***************************************************************************)
Bool(b) == <<"bool", b>>
Arr(a) == <<"arr", a>>

\* truthiness of the values a response body holds
Truthy(v) == ~Falsy(v) /\ v # Bool(FALSE)

CertX == [tokenId |-> Num(1), tokenURI |-> Str("ipfs://X")]
CertNoURI == [tokenId |-> Num(2), name |-> Str("Raw name")]
CertEmptyURI == [tokenId |-> Num(3), tokenURI |-> Str("")]
CertFull == [tokenId |-> Num(4), tokenURI |-> Str("https://meta.example/4.json"),
             name |-> Str("Raw name"), metadata |-> Str("raw metadata")]
RawRecords == { CertX, CertNoURI, CertEmptyURI, CertFull }

DocPlain == [name |-> Str("Meta name"), image |-> Str("ipfs://img")]
DocWithId == [tokenId |-> Num(99), description |-> Str("Meta description")]
DocNested == [metadata |-> Str("document metadata"), name |-> Str("Meta name")]
MetadataDocuments == { DocPlain, DocWithId, DocNested }

\* the result of a fetch and of reading its body: a failure (the request
\* cannot be sent or received, a non-2xx status, a body that is not JSON),
\* or the parsed JSON body
Fail(kind) == <<"fail", kind>>
Json(body) == <<"json", body>>
Failed(response) == response[1] = "fail"
FetchFailures == { Fail("network"), Fail("non2xx"), Fail("badjson") }

\* responses of a GET of a metadata document
MetadataResponses == FetchFailures \cup { Json(d) : d \in MetadataDocuments }

RECURSIVE SeqsUpTo(_, _)
SeqsUpTo(S, n) ==
    IF n = 0 THEN { << >> }
    ELSE LET shorter == SeqsUpTo(S, n - 1)
         IN  shorter \cup { Append(q, x) : q \in shorter, x \in S }

CertLists == SeqsUpTo(RawRecords, MaxCerts)

\* bodies of GET {API_BASE_URL}/certificates/wallet/{address}
CertificateBodies ==
    { Null } \cup
    { Obj([success |-> Bool(TRUE), certificates |-> Arr(l), count |-> Num(Len(l))])
        : l \in CertLists }
    \cup { Obj([success |-> Bool(TRUE)]),
           Obj([success |-> Bool(FALSE), error |-> Str("Wallet lookup failed")]),
           Obj([success |-> Bool(FALSE)]) }

\* bodies of GET {API_BASE_URL}/wallet/{address}/balance
BalanceBodies ==
    { Null,
      Obj([success |-> Bool(TRUE), balance |-> Obj([formatted |-> Str("2.5")])]),
      Obj([success |-> Bool(TRUE)]),
      Obj([success |-> Bool(FALSE)]) }

CertificateResponses == FetchFailures \cup { Json(b) : b \in CertificateBodies }
BalanceResponses == FetchFailures \cup { Json(b) : b \in BalanceBodies }

\* provider.getBalance(address), in wei
WeiBalances == { "0", "1500000000000000000" }

UnableToLoad == "Unable to load"

(***************************************************************************)
(* fetchIPFSMetadata and the per-certificate callback of getCertificates.  *)
(***************************************************************************)
\* fetchIPFSMetadata issues a request: `if (!tokenURI) return null` not taken
NeedsMetadataRequest(cert) == ~Falsy(Get(cert, "tokenURI"))

\* one call of the callback of lines 92-105: its certificate, the URL it
\* requested ("" when it requested none), where the request stands
\* ("skipped", "pending", "failed", "fetched"), what fetchIPFSMetadata
\* returned, and the rank of its response among the responses of the call's
\* metadata requests (0 for a callback that waits for none)
MetadataFetch(cert) ==
    IF NeedsMetadataRequest(cert)
    THEN [cert |-> cert, url |-> resolveIPFS(Get(cert, "tokenURI")[2]),
          st |-> "pending", metadata |-> Null, rank |-> 0]
    ELSE [cert |-> cert, url |-> "", st |-> "skipped", metadata |-> Null,
          rank |-> 0]

\* what fetchIPFSMetadata returns for a response: the catch turns every
\* failure into null
MetadataResult(response) ==
    IF Failed(response) THEN Null ELSE Obj(response[2])

\* a merge that also keeps the record it was given under `raw`
EnrichKeepingRaw(cert, metadata) ==
    Spread(Spread(Spread(cert, [raw |-> Obj(cert)]), [metadata |-> metadata]),
           OwnProps(metadata))

\* { ...cert, metadata: metadata, ...metadata }
Enrich(cert, metadata) ==
    Spread(Spread(cert, [metadata |-> metadata]), OwnProps(metadata))

\* callback a returned before callback b
ReturnedBefore(fetches, a, b) ==
    \/ fetches[a].rank < fetches[b].rank
    \/ fetches[a].rank = fetches[b].rank /\ a < b

\* the results collected as the callbacks return
EnrichAllAsReturned(certs, fetches) ==
    [n \in 1..Len(certs) |->
        LET j == CHOOSE j \in 1..Len(certs) :
                    Cardinality({ k \in 1..Len(certs) :
                                    ReturnedBefore(fetches, k, j) }) = n - 1
        IN  Enrich(certs[j], fetches[j].metadata)]

\* certificatesWithMetadata once every callback has returned: Promise.all
\* keeps the order of the promises it was given
EnrichAll(certs, fetches) ==
    [i \in 1..Len(certs) |-> Enrich(certs[i], fetches[i].metadata)]

(***************************************************************************)
(* fetchWalletData.  A load record is one call: where it is suspended, the *)
(* provider requests it made, and its two backend requests.                *)
(***************************************************************************)
ApothemChainId == "0x33"
ChainIds == { ApothemChainId, "0x1" }
UnrecognizedChainCode == 4902
SwitchErrorCodes == { UnrecognizedChainCode, 4001 }

NoRequest == [st |-> "none", data |-> Null, fetches |-> << >>]
Awaiting == [st |-> "await", data |-> Null, fetches |-> << >>]
Rejected == [st |-> "rejected", data |-> Null, fetches |-> << >>]
Fulfilled(data) == [st |-> "fulfilled", data |-> data, fetches |-> << >>]

IsSettled(request) == request.st \in { "fulfilled", "rejected" }

NewLoad(address) ==
    [pc |-> "start", address |-> address, requests |-> << >>, api |-> "",
     resolved |-> FALSE, cert |-> NoRequest, bal |-> NoRequest, threw |-> FALSE,
     answer |-> Null, chainId |-> Null, switchError |-> Null]

BackendResolved == findResult \in { "returned", "threw" }

\* window.ethereum.request({ method })
ProviderRequest(load, method, pc) ==
    [load EXCEPT !.pc = pc, !.requests = Append(@, method)]

\* Promise.allSettled([getCertificates(address), getBalance(address)]): both
\* requests are built from API_BASE_URL as it is now and sent
SendRequests(load) ==
    [load EXCEPT !.pc = "fetch", !.api = API_BASE_URL,
                 !.resolved = BackendResolved,
                 !.cert = Awaiting, !.bal = Awaiting]

\* ensureCorrectNetwork up to its first await, and fetchWalletData after it
\* when it returns at once
EnterNetworkCheck(load) ==
    IF ~hasEthereum
    THEN SendRequests(load)
    ELSE ProviderRequest(load, "eth_chainId", "chainId")

\* lines 233-248: what the certificates outcome makes of the state
CertStage(cert) ==
    LET none == [threw |-> FALSE, message |-> "", certificates |-> << >>, count |-> 0]
    IN  IF cert.st = "rejected" THEN none
        ELSE IF ~IsObj(cert.data)
        THEN [none EXCEPT !.threw = TRUE, !.message = "TypeError"]
        ELSE LET certsData == cert.data[2]
                 certs == IF Truthy(Get(certsData, "certificates"))
                          THEN Get(certsData, "certificates")[2] ELSE << >>
             IN  IF Truthy(Get(certsData, "success"))
                 THEN [none EXCEPT !.certificates = certs,
                                   !.count = IF Truthy(Get(certsData, "count"))
                                             THEN Get(certsData, "count")[2]
                                             ELSE Len(certs)]
                 ELSE [none EXCEPT !.threw = TRUE,
                                   !.message = IF Truthy(Get(certsData, "error"))
                                               THEN Get(certsData, "error")[2]
                                               ELSE "Failed to fetch certificates"]

\* lines 250-261: what the balance outcome makes of the state
BalStage(bal) ==
    LET none == [threw |-> FALSE, message |-> "", set |-> FALSE, value |-> Null,
                 direct |-> FALSE]
    IN  IF bal.st = "rejected" THEN [none EXCEPT !.direct = TRUE]
        ELSE IF ~IsObj(bal.data)
        THEN [none EXCEPT !.threw = TRUE, !.message = "TypeError"]
        ELSE LET balanceData == bal.data[2]
             IN  IF Truthy(Get(balanceData, "success"))
                 THEN IF IsObj(Get(balanceData, "balance"))
                      THEN [none EXCEPT !.set = TRUE,
                               !.value = Get(Get(balanceData, "balance")[2], "formatted")]
                      ELSE [none EXCEPT !.threw = TRUE, !.message = "TypeError"]
                 ELSE [none EXCEPT !.direct = TRUE]

ProviderErrorMessage == "provider request rejected"

ErrorMessage(message) == Str("Failed to load dashboard data: " \o message)

\* a catch that reports the error and leaves the two loading flags alone
CatchKeepsLoading(i, load, message) ==
    /\ error' = ErrorMessage(message)
    /\ loads' = [loads EXCEPT ![i] = [load EXCEPT !.pc = "done", !.threw = TRUE]]
    /\ UNCHANGED << balance, certificates, certificateCount, loading,
                    metadataLoading >>

\* the catch of fetchWalletData, lines 265-270
Catch(i, load, message) ==
    /\ error' = ErrorMessage(message)
    /\ loading' = FALSE
    /\ metadataLoading' = FALSE
    /\ loads' = [loads EXCEPT ![i] = [load EXCEPT !.pc = "done", !.threw = TRUE]]
    /\ UNCHANGED << balance, certificates, certificateCount >>

\* fetchWalletData after `await Promise.allSettled`, lines 233-264, up to the
\* await of provider.getBalance in fetchDirectBalance
HandleSettled(i, load) ==
    LET c == CertStage(load.cert)
        b == BalStage(load.bal)
        threw == c.threw \/ b.threw
        message == IF c.threw THEN c.message ELSE b.message
        direct == ~threw /\ b.direct /\ hasEthereum
    IN  /\ certificates' = IF c.threw THEN certificates ELSE c.certificates
        /\ certificateCount' = IF c.threw THEN certificateCount ELSE c.count
        /\ balance' = IF ~threw /\ b.set THEN b.value ELSE balance
        /\ error' = IF threw THEN ErrorMessage(message) ELSE error
        /\ loading' = IF direct THEN loading ELSE FALSE
        /\ metadataLoading' = IF direct THEN metadataLoading ELSE FALSE
        /\ loads' = [loads EXCEPT ![i] =
                        IF direct
                        THEN ProviderRequest(load, "eth_getBalance", "direct")
                        ELSE [load EXCEPT !.pc = "done", !.threw = threw]]

\* a request of the load settled: the join continues once both have
Settle(i, load) ==
    \E call \in { load } :
        IF IsSettled(call.cert) /\ IsSettled(call.bal)
        THEN HandleSettled(i, call)
        ELSE /\ loads' = [loads EXCEPT ![i] = call]
             /\ UNCHANGED dashVars

\* a call that has returned keeps its record until the next call starts;
\* from then on only the fact that it returned is kept
Returned == [NewLoad("") EXCEPT !.pc = "done"]
Forget(calls) ==
    [i \in 1..Len(calls) |-> IF calls[i].pc = "done" THEN Returned ELSE calls[i]]

\* fetchWalletData(address) up to its first await that waits for a response
BeginLoad(address) ==
    /\ loading' = TRUE
    /\ metadataLoading' = TRUE
    /\ error' = Null
    /\ loads' = Append(Forget(loads), EnterNetworkCheck(NewLoad(address)))
    /\ UNCHANGED << balance, certificates, certificateCount >>

(***************************************************************************)
(* The component's effects and event handlers.                             *)
(***************************************************************************)
\* first render: the effect of lines 185-188 (the effect of lines 190-205
\* returns at once, isClient being false)
Mount ==
    /\ phase = "initial"
    /\ phase' = "mounted"
    /\ isClient' = TRUE
    /\ StartHealthCheck
    /\ UNCHANGED << moduleVars, envVars, metaMaskInstalled, wallet, dashVars, loads >>

\* the effect of lines 190-205, run again because isClient changed
ClientEffect ==
    /\ phase = "mounted"
    /\ isClient
    /\ phase' = "ready"
    /\ IF ~hasEthereum
       THEN /\ metaMaskInstalled' = FALSE
            /\ UNCHANGED << wallet, dashVars, loads >>
       ELSE IF Falsy(storedWallet)
       THEN /\ error' = Str("No wallet connected! Please connect your wallet first.")
            /\ loading' = FALSE
            /\ UNCHANGED << metaMaskInstalled, wallet, balance, certificates,
                            certificateCount, metadataLoading, loads >>
       ELSE /\ wallet' = storedWallet
            /\ BeginLoad(storedWallet[2])
            /\ UNCHANGED metaMaskInstalled
    /\ UNCHANGED << moduleVars, envVars, isClient, probeVars >>

\* Refresh buttons that stay enabled while a load is running
RefreshOfferedWhileLoading ==
    /\ phase = "ready"
    /\ metaMaskInstalled
    /\ ~Falsy(wallet)

\* the render offers a Refresh button: the dashboard is rendered (lines
\* 392-430 return otherwise), and the header button is not disabled (line
\* 487) or the empty-state button is rendered (lines 525-548)
RefreshOffered ==
    /\ phase = "ready"
    /\ metaMaskInstalled
    /\ ~Falsy(wallet)
    /\ ~loading

\* refreshData, lines 330-334
Refresh ==
    /\ RefreshOffered
    /\ Len(loads) < MaxLoads
    /\ IF ~Falsy(wallet)
       THEN BeginLoad(wallet[2])
       ELSE UNCHANGED << dashVars, loads >>
    /\ UNCHANGED << moduleVars, envVars, mountVars, probeVars >>

frame == << moduleVars, envVars, mountVars, probeVars >>

\* the answer to eth_chainId, line 276
ChainIdResponse(i, answer) ==
    LET load == loads[i]
    IN  /\ load.pc = "chainId"
        /\ IF Failed(answer)
           THEN Catch(i, load, ProviderErrorMessage)
           ELSE LET asked == [load EXCEPT !.chainId = Str(answer[2])]
                IN  loads' = [loads EXCEPT ![i] =
                      IF answer[2] # ApothemChainId
                      THEN ProviderRequest(asked, "wallet_switchEthereumChain", "switch")
                      ELSE SendRequests(asked)]
                /\ UNCHANGED dashVars
        /\ UNCHANGED frame

\* every rejection of the switch taken for an unknown chain
IsSwitchError(answer) == Failed(answer)

\* switchError.code === 4902, line 286
IsUnrecognizedChain(answer) ==
    Failed(answer) /\ answer[2] = UnrecognizedChainCode

\* the answer to wallet_switchEthereumChain, lines 281-302
SwitchResponse(i, answer) ==
    LET load == IF Failed(answer)
                THEN [loads[i] EXCEPT !.switchError = Num(answer[2])]
                ELSE loads[i]
    IN  /\ load.pc = "switch"
        /\ IF Failed(answer) /\ ~IsUnrecognizedChain(answer)
           THEN Catch(i, load, ProviderErrorMessage)
           ELSE /\ loads' = [loads EXCEPT ![i] =
                      IF Failed(answer)
                      THEN ProviderRequest(load, "wallet_addEthereumChain", "addChain")
                      ELSE SendRequests(load)]
                /\ UNCHANGED dashVars
        /\ UNCHANGED frame

\* the answer to wallet_addEthereumChain, lines 287-298
AddChainResponse(i, answer) ==
    LET load == loads[i]
    IN  /\ load.pc = "addChain"
        /\ IF Failed(answer)
           THEN Catch(i, load, ProviderErrorMessage)
           ELSE /\ loads' = [loads EXCEPT ![i] = SendRequests(load)]
                /\ UNCHANGED dashVars
        /\ UNCHANGED frame

\* getCertificates once every metadata callback has returned, lines 106-111
CertificatesFulfilled(data, certs, fetches) ==
    [Fulfilled(Obj(Spread(data, [certificates |-> Arr(EnrichAll(certs, fetches))])))
        EXCEPT !.fetches = fetches]

NonePending(fetches) == \A j \in 1..Len(fetches) : fetches[j].st # "pending"

\* getCertificates from the response to the awaits of the metadata fetches,
\* lines 83-114
CertificatesAfterResponse(response) ==
    IF Failed(response) \/ ~IsObj(response[2])
    THEN Rejected
    ELSE LET data == response[2][2]
         IN  IF Truthy(Get(data, "success")) /\ Truthy(Get(data, "certificates"))
             THEN LET certs == Get(data, "certificates")[2]
                      fetches == [j \in 1..Len(certs) |-> MetadataFetch(certs[j])]
                  IN  IF NonePending(fetches)
                      THEN CertificatesFulfilled(data, certs, fetches)
                      ELSE [st |-> "meta", data |-> Obj(data), fetches |-> fetches]
             ELSE Fulfilled(Obj(data))

\* the response to GET /certificates/wallet/{address}
CertificatesResponse(i, response) ==
    LET load == loads[i]
    IN  /\ load.pc = "fetch"
        /\ load.cert.st = "await"
        /\ Settle(i, [load EXCEPT !.cert = CertificatesAfterResponse(response)])
        /\ UNCHANGED frame

\* the response to the metadata request of certificate j
MetadataResponse(i, j, response) ==
    /\ loads[i].pc = "fetch"
    /\ loads[i].cert.st = "meta"
    /\ j \in 1..Len(loads[i].cert.fetches)
    /\ loads[i].cert.fetches[j].st = "pending"
    /\ LET load == loads[i]
           data == load.cert.data[2]
           certs == Get(data, "certificates")[2]
           fetches == [load.cert.fetches EXCEPT
                          ![j] = [@ EXCEPT !.st = IF Failed(response) THEN "failed"
                                                  ELSE "fetched",
                                           !.metadata = MetadataResult(response),
                                           !.rank = 1 + Cardinality(
                                               { k \in 1..Len(load.cert.fetches) :
                                                   load.cert.fetches[k].rank > 0 })]]
           after == [load EXCEPT !.cert =
                        IF NonePending(fetches)
                        THEN CertificatesFulfilled(data, certs, fetches)
                        ELSE [@ EXCEPT !.fetches = fetches]]
       IN  Settle(i, after)
    /\ UNCHANGED frame

\* getBalance from the response, lines 131-138
BalanceAfterResponse(response) ==
    IF Failed(response) THEN Rejected ELSE Fulfilled(response[2])

\* the response to GET /wallet/{address}/balance
BalanceResponse(i, response) ==
    LET load == loads[i]
    IN  /\ load.pc = "fetch"
        /\ load.bal.st = "await"
        /\ Settle(i, [load EXCEPT !.bal = BalanceAfterResponse(response)])
        /\ UNCHANGED frame

\* what fetchDirectBalance sets for the provider's answer, lines 310-315
DirectBalance(answer) ==
    IF Failed(answer) THEN Str(UnableToLoad) ELSE Str(formatEther(answer[2]))

\* the answer to provider.getBalance(address), then lines 263-264
DirectBalanceResponse(i, answer) ==
    LET load == loads[i]
    IN  /\ load.pc = "direct"
        /\ balance' = DirectBalance(answer)
        /\ loading' = FALSE
        /\ metadataLoading' = FALSE
        /\ loads' = [loads EXCEPT ![i].pc = "done", ![i].answer = answer]
        /\ UNCHANGED << certificates, certificateCount, error >>
        /\ UNCHANGED frame

ProviderFailure == Fail(0)
ChainIdAnswers == { ProviderFailure } \cup { Json(c) : c \in ChainIds }
SwitchAnswers == { Json(Null) } \cup { Fail(c) : c \in SwitchErrorCodes }
AddChainAnswers == { Json(Null), ProviderFailure }
BalanceAnswers == { ProviderFailure } \cup { Json(w) : w \in WeiBalances }

LoadIds == 1..Len(loads)

(***************************************************************************)
(* The page: every effect and handler, the backend and the gateway         *)
(* answering from the small sets below.                                    *)
(***************************************************************************)
PageCertLists == { << >>, << CertX >>, << CertNoURI, CertX >> }
PageCertificateResponses ==
    FetchFailures
    \cup { Json(b) : b \in { Null, Obj([success |-> Bool(TRUE)]),
                             Obj([success |-> Bool(FALSE)]) } }
    \cup { Json(Obj([success |-> Bool(TRUE), certificates |-> Arr(l),
                     count |-> Num(Len(l))])) : l \in PageCertLists }
PageMetadataResponses == { Fail("network"), Json(DocPlain) }

Next ==
    \/ Mount
    \/ ClientEffect
    \/ Refresh
    \/ \E outcome \in HealthOutcomes : HealthResponse(outcome)
    \/ \E i \in LoadIds, answer \in ChainIdAnswers : ChainIdResponse(i, answer)
    \/ \E i \in LoadIds, answer \in SwitchAnswers : SwitchResponse(i, answer)
    \/ \E i \in LoadIds, answer \in AddChainAnswers : AddChainResponse(i, answer)
    \/ \E i \in LoadIds, response \in PageCertificateResponses :
          CertificatesResponse(i, response)
    \/ \E i \in LoadIds, j \in 1..MaxCerts, response \in PageMetadataResponses :
          MetadataResponse(i, j, response)
    \/ \E i \in LoadIds, response \in BalanceResponses : BalanceResponse(i, response)
    \/ \E i \in LoadIds, answer \in BalanceAnswers : DirectBalanceResponse(i, answer)

Spec == Init /\ [][Next]_vars

\* a request a load awaits is answered
RequestSettles ==
    \/ \E i \in LoadIds, answer \in ChainIdAnswers : ChainIdResponse(i, answer)
    \/ \E i \in LoadIds, answer \in SwitchAnswers : SwitchResponse(i, answer)
    \/ \E i \in LoadIds, answer \in AddChainAnswers : AddChainResponse(i, answer)
    \/ \E i \in LoadIds, response \in PageCertificateResponses :
          CertificatesResponse(i, response)
    \/ \E i \in LoadIds, j \in 1..MaxCerts, response \in PageMetadataResponses :
          MetadataResponse(i, j, response)
    \/ \E i \in LoadIds, response \in BalanceResponses : BalanceResponse(i, response)
    \/ \E i \in LoadIds, answer \in BalanceAnswers : DirectBalanceResponse(i, answer)

\* the page whose first backend candidate answers its probe, with every
\* request of the provider and of fetch that a load awaits answered in the
\* end
NextLoads ==
    \/ Mount
    \/ ClientEffect
    \/ Refresh
    \/ HealthResponse("ok")
    \/ RequestSettles

FairSpec == Init /\ [][NextLoads]_vars /\ WF_vars(RequestSettles)

(***************************************************************************)
(* getCertificates on the page's straight path to it (the first backend    *)
(* answers its probe, the wallet is on the Apothem chain), the backend     *)
(* answering with every certificate list up to MaxCerts and the gateway    *)
(* with every metadata document.                                           *)
(***************************************************************************)
BalanceOk == Json(Obj([success |-> Bool(TRUE),
                       balance |-> Obj([formatted |-> Str("2.5")])]))

NextCertificates ==
    \/ Mount
    \/ ClientEffect
    \/ HealthResponse("ok")
    \/ \E i \in LoadIds : ChainIdResponse(i, Json(ApothemChainId))
    \/ \E i \in LoadIds, response \in CertificateResponses :
          CertificatesResponse(i, response)
    \/ \E i \in LoadIds, j \in 1..MaxCerts, response \in MetadataResponses :
          MetadataResponse(i, j, response)
    \/ \E i \in LoadIds : BalanceResponse(i, BalanceOk)

SpecCertificates == Init /\ [][NextCertificates]_vars

(***************************************************************************)
(* Properties.                                                             *)
(***************************************************************************)
ProbeUrls == [i \in 1..Len(probes) |-> probes[i].url]
NoProbeOk == \A i \in 1..Len(probes) : ~ResponseOk(probes[i].outcome)
FindSettled == findResult \in { "returned", "threw" }

\* C1: once a candidate has answered its probe with a 2xx response (whether
\* or not the body parses as JSON), it is the last candidate probed,
\* findWorkingBackend has returned, and API_BASE_URL and HEALTH_URL are that
\* candidate's.
C1_FirstSuccessWins ==
    \A i \in 1..Len(probes) :
        ResponseOk(probes[i].outcome) =>
            /\ Len(probes) = i
            /\ findResult = "returned"
            /\ API_BASE_URL = probes[i].url \o "/api"
            /\ HEALTH_URL = probes[i].url \o "/health"

\* C2: as long as no candidate has answered 2xx, the candidates are probed
\* once each in list order and no payload is returned; when findWorkingBackend
\* has settled with no 2xx answer, it has probed the whole list and thrown the
\* 'no backend' error.
C2_AllFailThrows ==
    NoProbeOk =>
        /\ Len(probes) <= Len(POSSIBLE_BACKEND_URLS)
        /\ ProbeUrls = SubSeq(POSSIBLE_BACKEND_URLS, 1, Len(probes))
        /\ findResult # "returned"
        /\ backendStatus # Str(HealthPayload)
        /\ FindSettled =>
              /\ findResult = "threw"
              /\ ProbeUrls = POSSIBLE_BACKEND_URLS
              /\ backendStatus = Str("ERROR: " \o NoBackendMessage)

\* C2 witness: every candidate was probed, none answered 2xx, and
\* findWorkingBackend threw.
C2_Witness ==
    /\ findResult = "threw"
    /\ NoProbeOk
    /\ Len(probes) = Len(POSSIBLE_BACKEND_URLS)

\* C3: a load that has sent its certificates and balance requests sent them
\* after findWorkingBackend had settled, and to the API_BASE_URL the probe
\* left.
C3_ResolvedBeforeFetch ==
    \A i \in LoadIds :
        loads[i].cert.st # "none" =>
            /\ loads[i].resolved
            /\ FindSettled => loads[i].api = API_BASE_URL

NetworkStepThrew(load) == load.threw /\ load.cert.st = "none"

\* C4: a load that has finished is in the error state only if
\* ensureCorrectNetwork threw (it never sent its two requests).
C4_ErrorOnlyFromNetworkStep ==
    \A i \in LoadIds :
        (loads[i].pc = "done" /\ loads[i].threw) => NetworkStepThrew(loads[i])

HasRequested(load, method) ==
    \E n \in 1..Len(load.requests) : load.requests[n] = method

\* C5: when both requests of a load have settled and the load has finished,
\* the balance outcome was applied whatever the certificates outcome was: a
\* backend value is the balance, and a rejected or success=false balance
\* response made the load ask the provider.
C5_SettleAllJoin ==
    \A i \in LoadIds :
        LET load == loads[i]
            b == BalStage(load.bal)
        IN  (load.pc = "done" /\ IsSettled(load.cert) /\ IsSettled(load.bal)) =>
                /\ b.set => balance = b.value
                /\ b.direct => HasRequested(load, "eth_getBalance")

\* the certificates array getCertificates returned
EnrichedOf(cert) == Get(cert.data[2], "certificates")[2]

\* the callbacks of a getCertificates call that has returned
Callbacks(cert) == IF cert.st = "fulfilled" THEN 1..Len(cert.fetches) ELSE {}

\* C6: in a record enriched with a fetched metadata document, every field
\* the raw record and the document both have keeps the raw record's value.
C6_RawFieldsTakePrecedence ==
    \A i \in LoadIds : \A j \in Callbacks(loads[i].cert) :
        LET f == loads[i].cert.fetches[j]
        IN  f.st = "fetched" =>
                \A k \in (DOMAIN f.cert) \cap (DOMAIN f.metadata[2]) :
                    EnrichedOf(loads[i].cert)[j][k] = f.cert[k]

\* C7: every enriched record has the tokenId of its raw record.
C7_TokenIdUnchanged ==
    \A i \in LoadIds : \A j \in Callbacks(loads[i].cert) :
        Get(EnrichedOf(loads[i].cert)[j], "tokenId")
            = Get(loads[i].cert.fetches[j].cert, "tokenId")

\* C8: when the metadata fetch of a record failed, getCertificates returns
\* the raw record in its place (the same fields, no metadata field added),
\* the other records enriched with what their own fetches returned, and as
\* many records and the same count as the response carried.
C8_FailedMetadataKeepsRaw ==
    \A i \in LoadIds : \A j \in Callbacks(loads[i].cert) :
        LET cert == loads[i].cert
            f == cert.fetches[j]
        IN  f.st = "failed" =>
                /\ EnrichedOf(cert)[j] = f.cert
                /\ \A k \in Callbacks(cert) \ {j} :
                      cert.fetches[k].st # "failed" =>
                          EnrichedOf(cert)[k]
                              = Enrich(cert.fetches[k].cert, cert.fetches[k].metadata)
                /\ Len(EnrichedOf(cert)) = Len(cert.fetches)
                /\ Get(cert.data[2], "count") = Num(Len(cert.fetches))

\* C9: a record whose tokenURI is empty or absent causes no request and is
\* returned unchanged.
C9_NoLocatorUnchanged ==
    \A i \in LoadIds : \A j \in Callbacks(loads[i].cert) :
        LET f == loads[i].cert.fetches[j]
        IN  Falsy(Get(f.cert, "tokenURI")) =>
                /\ f.st = "skipped"
                /\ f.url = ""
                /\ EnrichedOf(loads[i].cert)[j] = f.cert

\* C10: a finished load whose balance request was rejected or answered with
\* success=false asked the provider, and when the provider answered, the
\* balance is the answer converted by formatEther and not the sentinel.
C10_DirectBalanceFallback ==
    \A i \in LoadIds :
        LET load == loads[i]
        IN  (load.pc = "done" /\ IsSettled(load.bal) /\ BalStage(load.bal).direct) =>
                /\ HasRequested(load, "eth_getBalance")
                /\ ~Failed(load.answer) =>
                      /\ balance = Str(formatEther(load.answer[2]))
                      /\ balance # Str(UnableToLoad)

\* C11: a finished load whose certificates stage did not throw did not
\* throw in its balance stage either, whatever the balance response was, and
\* when the provider's answer to getBalance was a failure the balance is the
\* sentinel.
C11_BalanceStageNeverThrows ==
    \A i \in LoadIds :
        LET load == loads[i]
        IN  (/\ load.pc = "done"
             /\ IsSettled(load.cert) /\ IsSettled(load.bal)
             /\ ~CertStage(load.cert).threw) =>
                /\ ~load.threw
                /\ Failed(load.answer) => balance = Str(UnableToLoad)

\* C12: a finished load whose certificates request was rejected shows no
\* certificates and the count 0, set no error, and applied its balance
\* outcome.
C12_RejectedRecordsDegrade ==
    \A i \in LoadIds :
        LET load == loads[i]
            b == BalStage(load.bal)
        IN  (load.pc = "done" /\ load.cert.st = "rejected") =>
                /\ certificates = << >>
                /\ certificateCount = 0
                /\ ~load.threw
                /\ error = Null
                /\ b.set => balance = b.value
                /\ b.direct => HasRequested(load, "eth_getBalance")

\* the provider requests ensureCorrectNetwork made in a load
NetworkRequests(load) ==
    SelectSeq(load.requests, LAMBDA method : method # "eth_getBalance")

\* the chain differed, the switch failed with 4902 and the registration was
\* answered without a failure
RegisteredAfterSwitch(load) ==
    /\ load.switchError = Num(UnrecognizedChainCode)
    /\ load.cert.st # "none"

\* C13 as stated: after a switch that failed with 4902 and a registration
\* that succeeded, the switch request was issued a second time.
C13_SwitchIssuedAgain ==
    \A i \in LoadIds :
        RegisteredAfterSwitch(loads[i]) =>
            NetworkRequests(loads[i]) =
                << "eth_chainId", "wallet_switchEthereumChain",
                   "wallet_addEthereumChain", "wallet_switchEthereumChain" >>

\* C13 amended: a switch that failed with 4902 is followed by exactly one
\* registration request and by no further switch request; a switch that
\* failed with another code ends the load in its catch with no registration
\* request; a chain id that already matches is followed by no switch and no
\* registration request.
C13_RegisterWithoutSecondSwitch ==
    \A i \in LoadIds :
        LET load == loads[i]
            requests == NetworkRequests(load)
        IN  /\ load.switchError = Num(UnrecognizedChainCode) =>
                requests = << "eth_chainId", "wallet_switchEthereumChain",
                              "wallet_addEthereumChain" >>
            /\ (load.switchError # Null
                    /\ load.switchError # Num(UnrecognizedChainCode)) =>
                /\ requests = << "eth_chainId", "wallet_switchEthereumChain" >>
                /\ load.pc = "done" /\ NetworkStepThrew(load)
            /\ load.chainId = Str(ApothemChainId) =>
                requests = << "eth_chainId" >>

C13_Witness ==
    \E i \in LoadIds :
        /\ RegisteredAfterSwitch(loads[i])
        /\ loads[i].pc = "done" /\ ~loads[i].threw

\* the probes of the resolution after which line 61-62 wrote the pair
PairWrites == { i \in 1..Len(probes) : ResponseOk(probes[i].outcome) }

\* C14: API_BASE_URL and HEALTH_URL are written at most once in a resolution
\* and only for a candidate that answered 2xx: while no candidate has, the
\* pair is the initial one, and otherwise it is the pair of the one candidate
\* that did.
C14_CacheWrittenOnce ==
    /\ Cardinality(PairWrites) <= 1
    /\ NoProbeOk =>
          /\ API_BASE_URL = DefaultApiBaseUrl
          /\ HEALTH_URL = DefaultHealthUrl
    /\ \A i \in PairWrites :
          /\ API_BASE_URL = probes[i].url \o "/api"
          /\ HEALTH_URL = probes[i].url \o "/health"

\* C15: merging the metadata a callback got into the record the callback
\* returned gives that record again.
C15_EnrichIdempotent ==
    \A i \in LoadIds : \A j \in Callbacks(loads[i].cert) :
        LET enriched == EnrichedOf(loads[i].cert)[j]
        IN  Enrich(enriched, loads[i].cert.fetches[j].metadata) = enriched

\* a record with a name and a metadata field of its own, enriched with a
\* document that has both
C15_Witness ==
    \E i \in LoadIds : \E j \in Callbacks(loads[i].cert) :
        /\ loads[i].cert.fetches[j].cert = CertFull
        /\ loads[i].cert.fetches[j].metadata = Obj(DocNested)

\* C16: the list getCertificates returns has the length of the list the
\* backend sent, and its position j holds the enrichment of the backend's
\* record j with the metadata callback j got, in whatever order the metadata
\* responses arrived.
C16_OrderAndLengthPreserved ==
    \A i \in LoadIds :
        LET cert == loads[i].cert
        IN  cert.st = "fulfilled" /\ cert.fetches # << >> =>
                /\ Len(EnrichedOf(cert)) = Len(cert.fetches)
                /\ \A j \in 1..Len(cert.fetches) :
                      EnrichedOf(cert)[j]
                          = Enrich(cert.fetches[j].cert, cert.fetches[j].metadata)

\* two metadata responses that arrived in the reverse order of their records
C16_Witness ==
    \E i \in LoadIds :
        LET cert == loads[i].cert
        IN  /\ cert.st = "fulfilled"
            /\ Len(cert.fetches) = 2
            /\ cert.fetches[1].rank > cert.fetches[2].rank
            /\ cert.fetches[2].rank > 0
            /\ EnrichedOf(cert)[1] # EnrichedOf(cert)[2]

\* the calls of fetchWalletData that have not returned
InFlight == { i \in LoadIds : loads[i].pc # "done" }

\* C17: at most one call of fetchWalletData has not returned, loading is
\* true as long as one has not, and a Refresh button can be clicked only
\* when none is running.
C17_OneLoadInFlight ==
    /\ Cardinality(InFlight) <= 1
    /\ InFlight # {} => loading
    /\ RefreshOffered => InFlight = {}

\* a load started by a Refresh click after the first load had finished
C17_Witness ==
    /\ Len(loads) >= 2
    /\ loads[1].pc = "done"
    /\ InFlight = { Len(loads) }
    /\ loading

\* no call of fetchWalletData is running and at least one has returned
LoadsFinished == loads # << >> /\ InFlight = {}

\* C18: every call of fetchWalletData returns in the end; when the last call
\* has returned, loading and metadataLoading are false and the error is set
\* exactly when that call ended in its catch.
C18_LoadFinishes ==
    /\ [](LoadsFinished =>
            /\ ~loading
            /\ ~metadataLoading
            /\ error # Null <=> loads[Len(loads)].threw)
    /\ \A i \in 1..MaxLoads :
          (i \in InFlight) ~> (i \in LoadIds /\ loads[i].pc = "done")

\* a load started by a Refresh click that ended in its catch
C18_Witness ==
    /\ Len(loads) >= 2
    /\ LoadsFinished
    /\ loads[Len(loads)].threw
    /\ error # Null

====
